---- MODULE Spec2Model ----
(***************************************************************************)
(* A model of the cache-register crate: the bounded, insertion-ordered     *)
(* VecCache<T> (src/multi.rs) with its OccupancyLimit (src/multi/limit.rs) *)
(* and the single-slot CacheCell<T> (src/cell.rs).                         *)
(*                                                                         *)
(* Each object is driven by its own specification (SpecVec, SpecCell):     *)
(* the library has no background activity, every step is one method call   *)
(* made by the caller.  `calls` / `cellCalls` record the calls made so far *)
(* (method, argument, returned value) so that what a call returned can be  *)
(* related to the state it ran in.  `cellCtor` is the constructor the cell *)
(* was made with.  A bare OccupancyLimit is driven by SpecLimit: `olimit`  *)
(* is the descriptor and `limCalls` the two most recent calls on it.       *)
(***************************************************************************)
EXTENDS Integers, Sequences, FiniteSets

VARIABLES storage, limit, calls, value, keep_alive, cellCalls, cellCtor,
          olimit, limCalls

vecVars == <<storage, limit, calls>>
cellVars == <<value, keep_alive, cellCalls, cellCtor>>
limVars == <<olimit, limCalls>>
vars == <<storage, limit, calls, value, keep_alive, cellCalls, cellCtor,
          olimit, limCalls>>

(* ------------------------------ bounds --------------------------------- *)

\* number of distinct element values of type T
NumValues == 2
\* largest argument given to with_limit
MaxLimit == 3
\* number of method calls made on one VecCache
MaxVecCalls == 6
\* number of method calls made on one CacheCell
MaxCellCalls == 4

Values == 1..NumValues

(* --------------------- std types used by the code ---------------------- *)

None == [tag |-> "None"]
Some(x) == [tag |-> "Some", val |-> x]
Unit == [tag |-> "Unit"]
Ok(x) == [tag |-> "Ok", val |-> x]
Err(e) == [tag |-> "Err", err |-> e]

Last(s) == s[Len(s)]

(* ------------------------- src/multi/limit.rs -------------------------- *)

Unlimited == [tag |-> "Unlimited"]
Limited(n) == [tag |-> "Limited", val |-> n]

ZeroMaxOccupancy == [tag |-> "ZeroMaxOccupancy"]
ReachedMaxOccupancy(n) == [tag |-> "ReachedMaxOccupancy", max |-> n]

\* #[default] of OccupancyLimit
limit_default == olimit = Unlimited

\* OccupancyLimit::get
limit_get(self) ==
    IF self.tag = "Unlimited" THEN None ELSE Some(self.val)

\* unset_limit that forgets the assignment `*self = Self::Unlimited`
limit_unset_limit_keeps(self) ==
    IF self.tag = "Unlimited"
    THEN [self |-> self, ret |-> None]
    ELSE [self |-> self, ret |-> Some(self.val)]

\* unset_limit that resets the limit to zero instead of removing it
limit_unset_limit_zero(self) ==
    IF self.tag = "Unlimited"
    THEN [self |-> self, ret |-> None]
    ELSE [self |-> Limited(0), ret |-> Some(self.val)]

\* OccupancyLimit::unset_limit: the descriptor afterwards and the value returned
limit_unset_limit(self) ==
    IF self.tag = "Unlimited"
    THEN [self |-> self, ret |-> None]
    ELSE [self |-> Unlimited, ret |-> Some(self.val)]

\* the raw counts and the descriptors the calls are made with
Counts == 0..MaxLimit
Limits == {Unlimited} \cup {Limited(n) : n \in Counts}

\* usize::cmp
usize_cmp(a, b) ==
    IF a < b THEN "Less" ELSE IF a = b THEN "Equal" ELSE "Greater"

\* PartialEq<usize> for OccupancyLimit
eq_usize(self, other) ==
    IF self.tag = "Limited" THEN self.val = other ELSE FALSE

\* PartialEq for OccupancyLimit
eq_limit(self, other) ==
    IF self.tag = "Limited" /\ other.tag = "Limited" THEN self.val = other.val
    ELSE IF self.tag = "Unlimited" /\ other.tag = "Unlimited" THEN TRUE
    ELSE FALSE

\* PartialOrd<usize> for OccupancyLimit
partial_cmp_usize(self, other) ==
    IF self.tag = "Limited" THEN Some(usize_cmp(self.val, other))
    ELSE Some("Greater")

\* PartialOrd for OccupancyLimit
partial_cmp_limit(self, other) ==
    IF self.tag = "Limited" /\ other.tag = "Limited" THEN Some(usize_cmp(self.val, other.val))
    ELSE IF self.tag = "Unlimited" /\ other.tag = "Unlimited" THEN Some("Equal")
    ELSE IF self.tag = "Limited" /\ other.tag = "Unlimited" THEN Some("Less")
    ELSE Some("Greater")

\* Ord::cmp with the two mixed arms exchanged
cmp_limit_swapped(self, other) ==
    IF self.tag = "Limited" /\ other.tag = "Limited" THEN usize_cmp(self.val, other.val)
    ELSE IF self.tag = "Unlimited" /\ other.tag = "Unlimited" THEN "Equal"
    ELSE IF self.tag = "Limited" /\ other.tag = "Unlimited" THEN "Greater"
    ELSE "Less"

\* Ord for OccupancyLimit
cmp_limit(self, other) ==
    IF self.tag = "Limited" /\ other.tag = "Limited" THEN usize_cmp(self.val, other.val)
    ELSE IF self.tag = "Unlimited" /\ other.tag = "Unlimited" THEN "Equal"
    ELSE IF self.tag = "Limited" /\ other.tag = "Unlimited" THEN "Less"
    ELSE "Greater"

\* is_zero written as `self.get().unwrap_or(0) == 0`
limit_is_zero_or_unlimited(self) ==
    (IF self.tag = "Limited" THEN self.val ELSE 0) = 0

\* OccupancyLimit::is_zero
limit_is_zero(self) == self = Limited(0)

\* OccupancyLimit::get_unchecked: the value returned; on Unlimited the call
\* reaches unreachable_unchecked() and any count may come back
limit_get_unchecked(self) ==
    IF self.tag = "Limited"
    THEN {[ret |-> self.val, ub |-> FALSE]}
    ELSE {[ret |-> n, ub |-> TRUE] : n \in Counts}

\* OccupancyLimit::get_mut: the value behind the reference returned
limit_get_mut(self) ==
    IF self.tag = "Unlimited" THEN None ELSE Some(self.val)

\* OccupancyLimit::set_limit
limit_set_limit(self, n) == Limited(n)

\* OccupancyLimit::get_mut_unchecked: the value behind the reference
\* returned; on Unlimited the call reaches unreachable_unchecked()
limit_get_mut_unchecked(self) ==
    IF self.tag = "Limited"
    THEN {[ret |-> self.val, ub |-> FALSE]}
    ELSE {[ret |-> n, ub |-> TRUE] : n \in Counts}

\* get_mut_or without the `match` that initialises an Unlimited descriptor
limit_get_mut_or_unprepared(self, init) ==
    {[self |-> self, ret |-> o.ret, ub |-> o.ub] : o \in limit_get_mut_unchecked(self)}

\* get_mut_or that calls set_limit(init) whatever the descriptor is
limit_get_mut_or_always_sets(self, init) ==
    LET prepared == limit_set_limit(self, init) IN
    {[self |-> prepared, ret |-> o.ret, ub |-> o.ub] : o \in limit_get_mut_unchecked(prepared)}

\* OccupancyLimit::get_mut_or: the descriptor afterwards, the value behind
\* the reference returned, and whether unreachable_unchecked() was reached
limit_get_mut_or(self, init) ==
    LET prepared == IF self.tag = "Unlimited" THEN limit_set_limit(self, init) ELSE self IN
    {[self |-> prepared, ret |-> o.ret, ub |-> o.ub] : o \in limit_get_mut_unchecked(prepared)}

\* OccupancyLimit::replace_limit: the descriptor afterwards and the value returned
limit_replace_limit(self, n) ==
    IF self.tag = "Unlimited"
    THEN [self |-> Limited(n), ret |-> None]
    ELSE [self |-> Limited(n), ret |-> Some(self.val)]

\* a call on the bare descriptor: it becomes `post`, and the call joins the
\* two most recent calls
limit_call(name, a, post, r, undefined) ==
    LET c == [op |-> name, on |-> olimit, arg |-> a, ret |-> r, ub |-> undefined] IN
    /\ olimit' = post
    /\ limCalls' = IF Len(limCalls) < 2 THEN Append(limCalls, c) ELSE <<limCalls[2], c>>
    /\ UNCHANGED <<vecVars, cellVars>>

\* calls of the OccupancyLimit methods and trait impls
ol_unset_limit ==
    LET r == limit_unset_limit(olimit) IN limit_call("unset_limit", Unit, r.self, r.ret, FALSE)

ol_is_zero == limit_call("is_zero", Unit, olimit, limit_is_zero(olimit), FALSE)

ol_get == limit_call("get", Unit, olimit, limit_get(olimit), FALSE)

ol_get_unchecked ==
    \E o \in limit_get_unchecked(olimit) : limit_call("get_unchecked", Unit, olimit, o.ret, o.ub)

ol_get_mut == limit_call("get_mut", Unit, olimit, limit_get_mut(olimit), FALSE)

ol_set_limit(n) == limit_call("set_limit", n, limit_set_limit(olimit, n), Unit, FALSE)

ol_get_mut_unchecked ==
    \E o \in limit_get_mut_unchecked(olimit) :
        limit_call("get_mut_unchecked", Unit, olimit, o.ret, o.ub)

ol_get_mut_or(init) ==
    \E o \in limit_get_mut_or(olimit, init) : limit_call("get_mut_or", init, o.self, o.ret, o.ub)

ol_replace_limit(n) ==
    LET r == limit_replace_limit(olimit, n) IN limit_call("replace_limit", n, r.self, r.ret, FALSE)

ol_eq_usize(other) == limit_call("eq_usize", other, olimit, eq_usize(olimit, other), FALSE)

ol_eq(other) == limit_call("eq", other, olimit, eq_limit(olimit, other), FALSE)

ol_partial_cmp_usize(other) ==
    limit_call("partial_cmp_usize", other, olimit, partial_cmp_usize(olimit, other), FALSE)

ol_partial_cmp(other) ==
    limit_call("partial_cmp", other, olimit, partial_cmp_limit(olimit, other), FALSE)

ol_cmp(other) == limit_call("cmp", other, olimit, cmp_limit(olimit, other), FALSE)

(* ---------------------------- src/multi.rs ----------------------------- *)

\* VecCache::occupancy
occupancy == Len(storage)

\* VecCache::is_empty
is_empty == Len(storage) = 0

\* VecCache::limit
limit_ == limit_get(limit)

\* VecCache::new
new ==
    /\ storage = <<>>
    /\ limit = Unlimited

\* Default for VecCache
default ==
    /\ storage = <<>>
    /\ limit = Unlimited

\* VecCache::with_limit
with_limit(max_occupancy) ==
    /\ storage = <<>>
    /\ limit = Limited(max_occupancy)

\* the admission test with `occupancy() > lim` in place of `occupancy() + 1 > lim`
admission_off_by_one(lim, occ) ==
    IF lim = Some(0) THEN Err(ZeroMaxOccupancy)
    ELSE IF lim.tag = "Some" /\ occ > lim.val THEN Err(ReachedMaxOccupancy(lim.val))
    ELSE Ok(Unit)

\* the admission test with `>=` in place of `>`
admission_early_full(lim, occ) ==
    IF lim = Some(0) THEN Err(ZeroMaxOccupancy)
    ELSE IF lim.tag = "Some" /\ occ + 1 >= lim.val THEN Err(ReachedMaxOccupancy(lim.val))
    ELSE Ok(Unit)

\* the `match self.limit.get()` of try_push: the error returned early, or Ok
\* when control reaches push_back
admission(lim, occ) ==
    IF lim = Some(0) THEN Err(ZeroMaxOccupancy)
    ELSE IF lim.tag = "Some" /\ occ + 1 > lim.val THEN Err(ReachedMaxOccupancy(lim.val))
    ELSE Ok(Unit)

\* try_push with push_back moved in front of the match
try_push_stores_first(v) ==
    /\ Len(calls) < MaxVecCalls
    /\ LET r == admission(limit_get(limit), occupancy) IN
        /\ storage' = Append(storage, v)
        /\ calls' = Append(calls, [op |-> "try_push", arg |-> v, ret |-> r])
    /\ limit' = limit
    /\ UNCHANGED <<cellVars, limVars>>

\* try_push that drops the oldest element to make room when the cache is full
try_push_evicts(v) ==
    /\ Len(calls) < MaxVecCalls
    /\ LET r == admission(limit_get(limit), occupancy) IN
        /\ storage' = IF r.tag = "Ok" THEN Append(storage, v)
                      ELSE IF r.err = ZeroMaxOccupancy THEN storage
                      ELSE Append(Tail(storage), v)
        /\ calls' = Append(calls, [op |-> "try_push", arg |-> v,
                                   ret |-> IF r = Err(ZeroMaxOccupancy) THEN r ELSE Ok(Unit)])
    /\ limit' = limit
    /\ UNCHANGED <<cellVars, limVars>>

\* VecCache::try_push
try_push(v) ==
    /\ Len(calls) < MaxVecCalls
    /\ LET r == admission(limit_get(limit), occupancy) IN
        /\ storage' = IF r.tag = "Ok" THEN Append(storage, v) ELSE storage
        /\ calls' = Append(calls, [op |-> "try_push", arg |-> v, ret |-> r])
    /\ limit' = limit
    /\ UNCHANGED <<cellVars, limVars>>

\* VecCache::unset_limit
unset_limit ==
    /\ Len(calls) < MaxVecCalls
    /\ LET r == limit_unset_limit(limit) IN
        /\ limit' = r.self
        /\ calls' = Append(calls, [op |-> "unset_limit", arg |-> Unit, ret |-> r.ret])
    /\ storage' = storage
    /\ UNCHANGED <<cellVars, limVars>>

(* ----------------------------- src/cell.rs ----------------------------- *)

\* Option::replace as used by set_persistent, set_transient and swap
option_replace(opt, x) == [self |-> Some(x), ret |-> opt]

\* Option::take as used by checked_clear and unchecked_clear
option_take(opt) == [self |-> None, ret |-> opt]

\* the conversions U::from(T) handed to migrate: a widening that keeps the
\* value and a conversion that does not
Conversions ==
    {[x \in Values |-> x], [x \in Values |-> (x % NumValues) + 1]}

\* CacheCell::new
cell_new ==
    /\ value = None
    /\ keep_alive = None
    /\ cellCtor = [op |-> "new", arg |-> Unit]

\* Default for CacheCell
cell_default ==
    /\ value = None
    /\ keep_alive = None
    /\ cellCtor = [op |-> "default", arg |-> Unit]

\* From<T> that marks the wrapped value transient
cell_from_transient(v) ==
    /\ value = Some(v)
    /\ keep_alive = Some(FALSE)
    /\ cellCtor = [op |-> "from", arg |-> v]

\* From<T> for CacheCell<T>
cell_from(v) ==
    /\ value = Some(v)
    /\ keep_alive = None
    /\ cellCtor = [op |-> "from", arg |-> v]

\* From<CacheCell<T>> for Option<T>
into_option == value

\* CacheCell::is_persistent
is_persistent == keep_alive = Some(TRUE)

\* CacheCell::is_transient
is_transient == keep_alive = Some(FALSE)

\* CacheCell::is_ambiguous
is_ambiguous == keep_alive = None

\* CacheCell::is_empty
cell_is_empty == value = None

\* CacheCell::has_value
has_value == value.tag = "Some"

\* CacheCell::get
get == value

\* CacheCell::keep_alive
get_keep_alive == keep_alive

\* set_persistent written with get_or_insert: the mode is set only when ambiguous
set_persistent_if_unset ==
    /\ Len(cellCalls) < MaxCellCalls
    /\ keep_alive' = IF keep_alive = None THEN Some(TRUE) ELSE keep_alive
    /\ cellCalls' = Append(cellCalls, [op |-> "set_persistent", arg |-> Unit, ret |-> Unit])
    /\ value' = value
    /\ UNCHANGED <<vecVars, limVars, cellCtor>>

\* CacheCell::set_persistent
set_persistent ==
    /\ Len(cellCalls) < MaxCellCalls
    /\ keep_alive' = option_replace(keep_alive, TRUE).self
    /\ cellCalls' = Append(cellCalls, [op |-> "set_persistent", arg |-> Unit, ret |-> Unit])
    /\ value' = value
    /\ UNCHANGED <<vecVars, limVars, cellCtor>>

\* set_transient that also discards the held value
set_transient_discards ==
    /\ Len(cellCalls) < MaxCellCalls
    /\ keep_alive' = option_replace(keep_alive, FALSE).self
    /\ cellCalls' = Append(cellCalls, [op |-> "set_transient", arg |-> Unit, ret |-> Unit])
    /\ value' = None
    /\ UNCHANGED <<vecVars, limVars, cellCtor>>

\* CacheCell::set_transient
set_transient ==
    /\ Len(cellCalls) < MaxCellCalls
    /\ keep_alive' = option_replace(keep_alive, FALSE).self
    /\ cellCalls' = Append(cellCalls, [op |-> "set_transient", arg |-> Unit, ret |-> Unit])
    /\ value' = value
    /\ UNCHANGED <<vecVars, limVars, cellCtor>>

\* swap that refuses to overwrite the value of a persistent cell
swap_respects_persistent(replacement) ==
    /\ Len(cellCalls) < MaxCellCalls
    /\ LET r == IF is_persistent /\ has_value
                THEN [self |-> value, ret |-> Some(replacement)]
                ELSE option_replace(value, replacement) IN
        /\ value' = r.self
        /\ cellCalls' = Append(cellCalls, [op |-> "swap", arg |-> replacement, ret |-> r.ret])
    /\ keep_alive' = keep_alive
    /\ UNCHANGED <<vecVars, limVars, cellCtor>>

\* CacheCell::swap
swap(replacement) ==
    /\ Len(cellCalls) < MaxCellCalls
    /\ LET r == option_replace(value, replacement) IN
        /\ value' = r.self
        /\ cellCalls' = Append(cellCalls, [op |-> "swap", arg |-> replacement, ret |-> r.ret])
    /\ keep_alive' = keep_alive
    /\ UNCHANGED <<vecVars, limVars, cellCtor>>

\* checked_clear that tests `!self.is_transient()`: an ambiguous cell is kept
checked_clear_unless_transient ==
    /\ Len(cellCalls) < MaxCellCalls
    /\ IF ~is_transient
       THEN /\ value' = value
            /\ cellCalls' = Append(cellCalls, [op |-> "checked_clear", arg |-> Unit, ret |-> None])
       ELSE /\ value' = option_take(value).self
            /\ cellCalls' = Append(cellCalls, [op |-> "checked_clear", arg |-> Unit, ret |-> Some(Unit)])
    /\ keep_alive' = keep_alive
    /\ UNCHANGED <<vecVars, limVars, cellCtor>>

\* checked_clear that takes the value before it looks at the mode
checked_clear_takes_first ==
    /\ Len(cellCalls) < MaxCellCalls
    /\ value' = option_take(value).self
    /\ cellCalls' = Append(cellCalls, [op |-> "checked_clear", arg |-> Unit,
                                       ret |-> IF is_persistent THEN None ELSE Some(Unit)])
    /\ keep_alive' = keep_alive
    /\ UNCHANGED <<vecVars, limVars, cellCtor>>

\* CacheCell::checked_clear
checked_clear ==
    /\ Len(cellCalls) < MaxCellCalls
    /\ IF is_persistent
       THEN /\ value' = value
            /\ cellCalls' = Append(cellCalls, [op |-> "checked_clear", arg |-> Unit, ret |-> None])
       ELSE /\ value' = option_take(value).self
            /\ cellCalls' = Append(cellCalls, [op |-> "checked_clear", arg |-> Unit, ret |-> Some(Unit)])
    /\ keep_alive' = keep_alive
    /\ UNCHANGED <<vecVars, limVars, cellCtor>>

\* unchecked_clear that leaves the value of a persistent cell in place
unchecked_clear_respects_mode ==
    /\ Len(cellCalls) < MaxCellCalls
    /\ value' = IF is_persistent THEN value ELSE option_take(value).self
    /\ cellCalls' = Append(cellCalls, [op |-> "unchecked_clear", arg |-> Unit, ret |-> Unit])
    /\ keep_alive' = keep_alive
    /\ UNCHANGED <<vecVars, limVars, cellCtor>>

\* CacheCell::unchecked_clear
unchecked_clear ==
    /\ Len(cellCalls) < MaxCellCalls
    /\ value' = option_take(value).self
    /\ cellCalls' = Append(cellCalls, [op |-> "unchecked_clear", arg |-> Unit, ret |-> Unit])
    /\ keep_alive' = keep_alive
    /\ UNCHANGED <<vecVars, limVars, cellCtor>>

\* migrate that builds the new cell the way From<T> does, without the mode
migrate_drops_mode(from) ==
    /\ Len(cellCalls) < MaxCellCalls
    /\ LET v == IF value.tag = "Some" THEN Some(from[value.val]) ELSE None IN
        /\ value' = v
        /\ keep_alive' = None
        /\ cellCalls' = Append(cellCalls, [op |-> "migrate", arg |-> from,
                                           ret |-> [value |-> v, keep_alive |-> None]])
    /\ UNCHANGED <<vecVars, limVars, cellCtor>>

\* CacheCell::migrate: the cell is consumed and the cell returned takes its place
migrate(from) ==
    /\ Len(cellCalls) < MaxCellCalls
    /\ LET v == IF value.tag = "Some" THEN Some(from[value.val]) ELSE None IN
        /\ value' = v
        /\ keep_alive' = keep_alive
        /\ cellCalls' = Append(cellCalls, [op |-> "migrate", arg |-> from,
                                           ret |-> [value |-> v, keep_alive |-> keep_alive]])
    /\ UNCHANGED <<vecVars, limVars, cellCtor>>

\* a call of a `&self` method of CacheCell: the result is returned and the
\* cell is only read
cell_query(name, result) ==
    /\ Len(cellCalls) < MaxCellCalls
    /\ cellCalls' = Append(cellCalls, [op |-> name, arg |-> Unit, ret |-> result])
    /\ value' = value
    /\ keep_alive' = keep_alive
    /\ UNCHANGED <<vecVars, limVars, cellCtor>>

\* a call of CacheCell::get
call_get == cell_query("get", get)

\* a call of CacheCell::is_empty
call_is_empty == cell_query("is_empty", cell_is_empty)

\* a call of CacheCell::has_value
call_has_value == cell_query("has_value", has_value)

\* a call of CacheCell::is_persistent
call_is_persistent == cell_query("is_persistent", is_persistent)

\* a call of CacheCell::is_transient
call_is_transient == cell_query("is_transient", is_transient)

\* a call of CacheCell::is_ambiguous
call_is_ambiguous == cell_query("is_ambiguous", is_ambiguous)

\* a call of CacheCell::keep_alive
call_keep_alive == cell_query("keep_alive", get_keep_alive)

(* --------------------------- specifications ---------------------------- *)

InitVec ==
    /\ \/ new
       \/ default
       \/ \E n \in 0..MaxLimit : with_limit(n)
    /\ calls = <<>>
    /\ cell_new
    /\ cellCalls = <<>>
    /\ limit_default
    /\ limCalls = <<>>

NextVec ==
    \/ \E v \in Values : try_push(v)
    \/ unset_limit

SpecVec == InitVec /\ [][NextVec]_vars

InitCell ==
    /\ \/ cell_new
       \/ cell_default
       \/ \E v \in Values : cell_from(v)
    /\ cellCalls = <<>>
    /\ new
    /\ calls = <<>>
    /\ limit_default
    /\ limCalls = <<>>

NextCell ==
    \/ set_persistent
    \/ set_transient
    \/ \E v \in Values : swap(v)
    \/ checked_clear
    \/ unchecked_clear
    \/ \E from \in Conversions : migrate(from)

SpecCell == InitCell /\ [][NextCell]_vars

\* the calls of SpecCell together with the read-only methods
NextCellQ ==
    \/ NextCell
    \/ call_get
    \/ call_is_empty
    \/ call_has_value
    \/ call_is_persistent
    \/ call_is_transient
    \/ call_is_ambiguous
    \/ call_keep_alive

SpecCellQ == InitCell /\ [][NextCellQ]_vars

\* a bare descriptor: the default, or either variant written out
InitLimit ==
    /\ \/ limit_default
       \/ \E n \in Counts : olimit = Limited(n)
    /\ limCalls = <<>>
    /\ new
    /\ calls = <<>>
    /\ cell_new
    /\ cellCalls = <<>>

NextLimit ==
    \/ ol_unset_limit
    \/ ol_is_zero
    \/ ol_get
    \/ ol_get_unchecked
    \/ ol_get_mut
    \/ \E n \in Counts : ol_set_limit(n)
    \/ ol_get_mut_unchecked
    \/ \E init \in Counts : ol_get_mut_or(init)
    \/ \E n \in Counts : ol_replace_limit(n)
    \/ \E m \in Counts : ol_eq_usize(m)
    \/ \E other \in Limits : ol_eq(other)
    \/ \E m \in Counts : ol_partial_cmp_usize(m)
    \/ \E other \in Limits : ol_partial_cmp(other)
    \/ \E other \in Limits : ol_cmp(other)

SpecLimit == InitLimit /\ [][NextLimit]_vars

(* ------------------------- VecCache properties ------------------------- *)

\* the call just made, in the state after it
vecCalled(op) == calls' # calls /\ Last(calls').op = op

\* the arguments of the try_push calls that returned Ok, in call order
RECURSIVE AcceptedValues(_)
AcceptedValues(log) ==
    IF log = <<>> THEN <<>>
    ELSE LET c == Last(log)
             rest == AcceptedValues(SubSeq(log, 1, Len(log) - 1)) IN
         IF c.op = "try_push" /\ c.ret.tag = "Ok" THEN Append(rest, c.arg) ELSE rest

\* C1: in every state reachable from new() or with_limit(n) by try_push and
\* unset_limit calls, if limit() is Some(n) then occupancy() <= n.
C1_OccupancyWithinLimit ==
    limit_.tag = "Some" => occupancy <= limit_.val

\* a limited cache that is exactly full and has just refused a second extra push
C1_Witness ==
    /\ limit_.tag = "Some" /\ limit_.val > 0 /\ occupancy = limit_.val
    /\ Len(calls) >= limit_.val + 2
    /\ Last(calls).op = "try_push" /\ Last(calls).ret.tag = "Err"
    /\ calls[Len(calls) - 1].ret.tag = "Err"

\* C2: try_push decides from the limit and the occupancy before the call:
\* Err(ZeroMaxOccupancy) exactly when the limit is Limited(0),
\* Err(ReachedMaxOccupancy(n)) exactly when the limit is Limited(n), n > 0 and
\* occupancy + 1 > n, and Ok(()) in every other case.
C2_TryPushDecision ==
    [][vecCalled("try_push") =>
        LET r == Last(calls').ret IN
        /\ (r = Err(ZeroMaxOccupancy)) <=> (limit = Limited(0))
        /\ \A n \in 0..(MaxLimit + 1) :
              (r = Err(ReachedMaxOccupancy(n)))
                 <=> (limit = Limited(n) /\ n > 0 /\ Len(storage) + 1 > n)
        /\ (r = Ok(Unit))
              <=> (limit = Unlimited
                   \/ (limit.tag = "Limited" /\ Len(storage) + 1 <= limit.val))
    ]_vars

\* all three outcomes have been returned by one cache: accepted, refused as
\* full, and (after the limit was removed) accepted again
C2_Witness ==
    /\ Len(calls) >= 4
    /\ calls[1].ret = Ok(Unit)
    /\ \E i \in 2..(Len(calls) - 1) :
          /\ calls[i].op = "try_push"
          /\ calls[i].ret.tag = "Err" /\ calls[i].ret.err.tag = "ReachedMaxOccupancy"
    /\ Last(calls).op = "try_push" /\ Last(calls).ret = Ok(Unit)
    /\ limit = Unlimited

\* C3: a try_push that returns an error leaves the stored sequence, the
\* occupancy and the limit as they were; the rejected value is not stored.
C3_FailedPushChangesNothing ==
    [][(vecCalled("try_push") /\ Last(calls').ret.tag = "Err") =>
        /\ storage' = storage
        /\ Len(storage') = Len(storage)
        /\ limit_get(limit') = limit_get(limit)
    ]_vars

\* a refused push of a value that the cache does not hold
C3_Witness ==
    /\ calls # <<>>
    /\ Last(calls).op = "try_push" /\ Last(calls).ret.tag = "Err"
    /\ storage # <<>>
    /\ \A i \in 1..Len(storage) : storage[i] # Last(calls).arg

C5_UnsetLimit ==
    [][/\ vecCalled("unset_limit") =>
            /\ Last(calls').ret = (IF limit.tag = "Limited" THEN Some(limit.val) ELSE None)
            /\ limit_get(limit') = None
            /\ storage' = storage
       /\ (vecCalled("try_push") /\ limit_get(limit) = None) =>
            /\ Last(calls').ret = Ok(Unit)
            /\ storage' = Append(storage, Last(calls').arg)
      ]_vars

\* a push is refused, the limit is removed, and the same push then succeeds
C5_Witness ==
    /\ Len(calls) >= 3
    /\ LET k == Len(calls) IN
        /\ calls[k - 2].op = "try_push" /\ calls[k - 2].ret.tag = "Err"
        /\ calls[k - 1].op = "unset_limit" /\ calls[k - 1].ret.tag = "Some"
        /\ calls[k].op = "try_push" /\ calls[k].ret = Ok(Unit)
        /\ calls[k].arg = calls[k - 2].arg
        /\ Last(storage) = calls[k].arg

\* C6: when try_push fails with ReachedMaxOccupancy(n), n is the current
\* limit and the occupancy is exactly n; try_push always returns a Result.
C6_ReachedMaxIsExactlyFull ==
    [][vecCalled("try_push") =>
        LET r == Last(calls').ret IN
        /\ r \in {Ok(Unit), Err(ZeroMaxOccupancy)}
                   \cup {Err(ReachedMaxOccupancy(n)) : n \in 1..(MaxLimit + 1)}
        /\ (r.tag = "Err" /\ r.err.tag = "ReachedMaxOccupancy") =>
              /\ limit_get(limit) = Some(r.err.max)
              /\ limit_get(limit') = Some(r.err.max)
              /\ Len(storage) = r.err.max
              /\ Len(storage') = r.err.max
    ]_vars

\* the first refusal by a cache of limit MaxLimit
C6_Witness ==
    /\ Len(calls) = MaxLimit + 1
    /\ Last(calls).ret = Err(ReachedMaxOccupancy(MaxLimit))
    /\ occupancy = MaxLimit

\* C7 as stated: at any time the limit can be changed to a value below the
\* current occupancy, keeping every stored element.
C7_ShrinkBelowOccupancyPermitted ==
    (occupancy > 0 /\ Len(calls) < MaxVecCalls) =>
        ENABLED (/\ NextVec
                 /\ limit'.tag = "Limited"
                 /\ limit'.val < Len(storage')
                 /\ storage' = storage)

\* C7 amended: the only change of limit is its removal by unset_limit, which
\* is possible whatever the occupancy and evicts nothing; afterwards
\* insertions are accepted; a numeric limit is never below the occupancy.
C7_LimitOnlyRemoved ==
    [][/\ limit' # limit =>
            /\ vecCalled("unset_limit")
            /\ limit' = Unlimited
            /\ storage' = storage
       /\ limit'.tag = "Limited" => (limit' = limit /\ Len(storage') <= limit'.val)
       /\ (vecCalled("try_push") /\ calls # <<>> /\ Last(calls).op = "unset_limit") =>
            Last(calls').ret.tag = "Ok"
      ]_vars

\* the limit of a full cache has just been removed, every element kept
C7_Witness ==
    /\ calls # <<>>
    /\ Last(calls).op = "unset_limit" /\ Last(calls).ret.tag = "Some"
    /\ Last(calls).ret.val > 0
    /\ occupancy = Last(calls).ret.val
    /\ limit_ = None

(* ------------------------ CacheCell properties ------------------------- *)

\* the call just made, in the state after it
cellCalled(op) == cellCalls' # cellCalls /\ Last(cellCalls').op = op

Setters == {"set_persistent", "set_transient"}

\* the most recent set_persistent / set_transient call of a log, "none" if
\* there is none
RECURSIVE LastSetter(_)
LastSetter(log) ==
    IF log = <<>> THEN "none"
    ELSE IF Last(log).op \in Setters THEN Last(log).op
    ELSE LastSetter(SubSeq(log, 1, Len(log) - 1))

\* C8: a cell starts Ambiguous, and once set_persistent or set_transient has
\* been called no call makes is_ambiguous() true again.
C8_NeverBackToAmbiguous ==
    /\ [](cellCalls = <<>> => is_ambiguous)
    /\ [](LastSetter(cellCalls) # "none" => ~is_ambiguous)
    /\ [][~is_ambiguous => ~is_ambiguous']_vars

\* the mode has gone from Persistent to Transient and the cell was then migrated
C8_Witness ==
    /\ Len(cellCalls) >= 3
    /\ \E i \in 1..Len(cellCalls) : \E j \in (i + 1)..Len(cellCalls) :
          /\ cellCalls[i].op = "set_persistent"
          /\ cellCalls[j].op = "set_transient"
    /\ Last(cellCalls).op = "migrate"
    /\ is_transient

\* C9: after any calls, the mode is the target of the most recent
\* set_persistent / set_transient call, whatever it was before, and calling a
\* setter twice in a row gives the same state as calling it once.
C9_LastSetterWins ==
    /\ [](LastSetter(cellCalls) = "set_persistent" => keep_alive = Some(TRUE))
    /\ [](LastSetter(cellCalls) = "set_transient" => keep_alive = Some(FALSE))
    /\ [][\A s \in Setters :
            (cellCalled(s) /\ cellCalls # <<>> /\ Last(cellCalls).op = s) =>
                (value' = value /\ keep_alive' = keep_alive)]_vars

\* a Transient cell was set Persistent, another call was made, and the cell
\* is Persistent
C9_Witness ==
    /\ Len(cellCalls) >= 3
    /\ \E i \in 2..(Len(cellCalls) - 1) :
          /\ cellCalls[i - 1].op = "set_transient"
          /\ cellCalls[i].op = "set_persistent"
    /\ Last(cellCalls).op \notin Setters
    /\ is_persistent

\* C10: swap(v) returns exactly the value held before the call (None if the
\* cell was empty) and the cell holds v afterwards, in every mode.
C10_SwapReturnsPrevious ==
    [][cellCalled("swap") =>
        /\ Last(cellCalls').ret = value
        /\ value' = Some(Last(cellCalls').arg)
        /\ get' = Some(Last(cellCalls').arg)
      ]_vars

\* a persistent cell holding 1 has returned Some(1) from swap(2) and holds 2
C10_Witness ==
    /\ Len(cellCalls) >= 2
    /\ is_persistent
    /\ Last(cellCalls) = [op |-> "swap", arg |-> 2, ret |-> Some(1)]
    /\ value = Some(2)

\* C11: checked_clear on a Persistent cell returns None and leaves the held
\* value (or emptiness) as it was; on a Transient or Ambiguous cell it
\* returns Some(()) and leaves the cell empty.
C11_CheckedClearRespectsPersistence ==
    [][cellCalled("checked_clear") =>
        IF keep_alive = Some(TRUE)
        THEN Last(cellCalls').ret = None /\ value' = value
        ELSE Last(cellCalls').ret = Some(Unit) /\ value' = None
      ]_vars

\* a wrapped value was cleared while the cell was Ambiguous; a new value was
\* stored, the cell set Persistent, and checked_clear then kept the value
C11_Witness ==
    /\ cellCtor.op = "from"
    /\ Len(cellCalls) = 4
    /\ cellCalls[1].op = "checked_clear" /\ cellCalls[1].ret = Some(Unit)
    /\ cellCalls[2].op = "swap" /\ cellCalls[2].ret = None
    /\ cellCalls[3].op = "set_persistent"
    /\ cellCalls[4].op = "checked_clear" /\ cellCalls[4].ret = None
    /\ value = Some(cellCalls[2].arg)

\* C12: migrate gives a cell with the mode of the consumed cell whose value
\* is the conversion of the old value when one was held and is absent when
\* none was; a conversion that keeps the value gives the same value and mode.
C12_MigrateKeepsModeConvertsValue ==
    [][cellCalled("migrate") =>
        LET from == Last(cellCalls').arg IN
        /\ keep_alive' = keep_alive
        /\ (value = None) => (value' = None)
        /\ (value # None) => (value' = Some(from[value.val]))
        /\ Last(cellCalls').ret = [value |-> value', keep_alive |-> keep_alive']
        /\ (\A x \in Values : from[x] = x) => (value' = value /\ keep_alive' = keep_alive)
      ]_vars

\* a Persistent cell holding a value has been migrated by a conversion that
\* changes the value
C12_Witness ==
    /\ Len(cellCalls) >= 2
    /\ Last(cellCalls).op = "migrate"
    /\ cellCalls[Len(cellCalls) - 1].op = "swap"
    /\ is_persistent
    /\ LET x == cellCalls[Len(cellCalls) - 1].arg IN
        /\ Last(cellCalls).arg[x] # x
        /\ value = Some(Last(cellCalls).arg[x])

\* C15: unchecked_clear leaves the cell empty in every mode, Persistent
\* included, and does not change the mode.
C15_UncheckedClearEmpties ==
    [][cellCalled("unchecked_clear") =>
        /\ value' = None
        /\ cell_is_empty'
        /\ keep_alive' = keep_alive
      ]_vars

\* a Persistent cell was given a value and unchecked_clear removed it
C15_Witness ==
    /\ Len(cellCalls) >= 3
    /\ cellCalls[Len(cellCalls) - 2].op = "set_persistent"
    /\ cellCalls[Len(cellCalls) - 1].op = "swap"
    /\ Last(cellCalls).op = "unchecked_clear"
    /\ is_persistent /\ cell_is_empty

\* C18: a cell from new() or default() is empty and Ambiguous, neither
\* Persistent nor Transient; From<T> of v gives a cell holding v in mode
\* Ambiguous; unwrapping a cell to Option yields its held value (None if
\* empty) whatever the mode, so wrapping v and unwrapping gives Some(v).
C18_ConstructionAndConversion ==
    /\ (cellCalls = <<>> /\ cellCtor.op \in {"new", "default"}) =>
          /\ cell_is_empty /\ ~has_value
          /\ is_ambiguous /\ ~is_persistent /\ ~is_transient
          /\ into_option = None
    /\ (cellCalls = <<>> /\ cellCtor.op = "from") =>
          /\ get = Some(cellCtor.arg)
          /\ is_ambiguous /\ ~is_persistent /\ ~is_transient
          /\ into_option = Some(cellCtor.arg)
    /\ into_option = get
    /\ (\A i \in 1..Len(cellCalls) : cellCalls[i].op \in Setters) =>
          into_option = (IF cellCtor.op = "from" THEN Some(cellCtor.arg) ELSE None)

\* a wrapped value is unwrapped after the cell was set Persistent
C18_Witness ==
    /\ cellCtor.op = "from"
    /\ Len(cellCalls) = 1 /\ cellCalls[1].op = "set_persistent"
    /\ is_persistent
    /\ into_option = Some(cellCtor.arg)

Queries == {"get", "is_empty", "has_value", "is_persistent", "is_transient",
            "is_ambiguous", "keep_alive"}

\* C16: set_persistent and set_transient leave the held value (or emptiness)
\* unchanged; swap, checked_clear and unchecked_clear leave the mode
\* unchanged; get and the is_* / has_value queries change neither and report
\* the current value and mode.
C16_ValueAndModeIndependent ==
    [][/\ (\E s \in Setters : cellCalled(s)) => value' = value
       /\ (\E c \in {"swap", "checked_clear", "unchecked_clear"} : cellCalled(c))
             => keep_alive' = keep_alive
       /\ (\E q \in Queries : cellCalled(q))
             => (value' = value /\ keep_alive' = keep_alive)
       /\ cellCalled("get") => Last(cellCalls').ret = value
       /\ cellCalled("is_empty") => (Last(cellCalls').ret <=> value = None)
       /\ cellCalled("has_value") => (Last(cellCalls').ret <=> value # None)
       /\ cellCalled("is_persistent") => (Last(cellCalls').ret <=> keep_alive = Some(TRUE))
       /\ cellCalled("is_transient") => (Last(cellCalls').ret <=> keep_alive = Some(FALSE))
       /\ cellCalled("is_ambiguous") => (Last(cellCalls').ret <=> keep_alive = None)
      ]_vars

\* a wrapped value was made Transient, which kept it, and then read by get
C16_Witness ==
    /\ cellCtor.op = "from"
    /\ Len(cellCalls) = 2
    /\ cellCalls[1].op = "set_transient"
    /\ cellCalls[2].op = "get" /\ cellCalls[2].ret = Some(cellCtor.arg)
    /\ is_transient /\ has_value

\* the standard operations: everything but unchecked_clear, set_transient
\* and the consuming migrate
Standard == {"set_persistent", "swap", "checked_clear"} \cup Queries

\* C20: a Persistent cell that holds a value still is Persistent and holds a
\* value after any standard operation (set_persistent, swap, checked_clear,
\* get and the queries), and the value is the same unless the operation was
\* a swap; hence after any sequence of such operations.
C20_PersistentKeepsValue ==
    [][(/\ is_persistent /\ has_value
        /\ cellCalls' # cellCalls
        /\ Last(cellCalls').op \in Standard) =>
            /\ is_persistent' /\ has_value'
            /\ (value' = value
                \/ (Last(cellCalls').op = "swap" /\ value' = Some(Last(cellCalls').arg)))
      ]_vars

\* a Persistent cell kept its wrapped value through checked_clear, had it
\* replaced by swap, and kept the new value through checked_clear
C20_Witness ==
    /\ cellCtor.op = "from"
    /\ Len(cellCalls) = 4
    /\ cellCalls[1].op = "set_persistent"
    /\ cellCalls[2].op = "checked_clear" /\ cellCalls[2].ret = None
    /\ cellCalls[3].op = "swap" /\ cellCalls[3].ret = Some(cellCtor.arg)
    /\ cellCalls[3].arg # cellCtor.arg
    /\ cellCalls[4].op = "checked_clear" /\ cellCalls[4].ret = None
    /\ value = Some(cellCalls[3].arg)

(* ---------------------- OccupancyLimit properties ---------------------- *)

\* the call just made on the bare descriptor, in the state after it
limCalled(op) ==
    /\ Len(limCalls') > 0
    /\ Last(limCalls').op = op
    /\ Last(limCalls').on = olimit

Reverse(o) == IF o = "Less" THEN "Greater" ELSE IF o = "Greater" THEN "Less" ELSE "Equal"

\* C13: Unlimited compares greater than every Limited(n); Limited(n) against
\* Limited(m) orders as n against m; Unlimited equals Unlimited; Limited(n)
\* equals the raw count m iff n = m; Unlimited equals no raw count and is
\* greater than every raw count; the order is total and transitive, and
\* PartialOrd, Ord and PartialEq agree.
C13_LimitOrdering ==
    LET a == olimit IN
    /\ \A b \in Limits :
        /\ (a = Unlimited /\ b.tag = "Limited") =>
              (cmp_limit(a, b) = "Greater" /\ cmp_limit(b, a) = "Less")
        /\ (a.tag = "Limited" /\ b.tag = "Limited") =>
              /\ (a.val < b.val) <=> (cmp_limit(a, b) = "Less")
              /\ (a.val = b.val) <=> (cmp_limit(a, b) = "Equal")
              /\ (a.val > b.val) <=> (cmp_limit(a, b) = "Greater")
        /\ (a = Unlimited /\ b = Unlimited) => (eq_limit(a, b) /\ cmp_limit(a, b) = "Equal")
        /\ cmp_limit(a, b) \in {"Less", "Equal", "Greater"}
        /\ cmp_limit(b, a) = Reverse(cmp_limit(a, b))
        /\ partial_cmp_limit(a, b) = Some(cmp_limit(a, b))
        /\ eq_limit(a, b) <=> (cmp_limit(a, b) = "Equal")
        /\ eq_limit(a, b) <=> (a = b)
        /\ \A c \in Limits :
              (cmp_limit(a, b) # "Greater" /\ cmp_limit(b, c) # "Greater")
                 => cmp_limit(a, c) # "Greater"
    /\ \A m \in Counts :
        /\ eq_usize(a, m) <=> (a = Limited(m))
        /\ a = Unlimited =>
              (~eq_usize(a, m) /\ partial_cmp_usize(a, m) = Some("Greater"))
        /\ eq_usize(a, m) <=> (partial_cmp_usize(a, m) = Some("Equal"))
    /\ \A i \in 1..Len(limCalls) :
          limCalls[i].op = "cmp" =>
              limCalls[i].ret = (IF limCalls[i].on = Unlimited
                                 THEN (IF limCalls[i].arg = Unlimited THEN "Equal" ELSE "Greater")
                                 ELSE IF limCalls[i].arg = Unlimited THEN "Less"
                                 ELSE usize_cmp(limCalls[i].on.val, limCalls[i].arg.val))

\* Unlimited was compared with the largest Limited and came out Greater, and
\* compared with the raw count of that limit and came out unequal
C13_Witness ==
    /\ Len(limCalls) = 2
    /\ limCalls[1].op = "cmp" /\ limCalls[1].on = Unlimited
    /\ limCalls[1].arg = Limited(MaxLimit) /\ limCalls[1].ret = "Greater"
    /\ limCalls[2].op = "eq_usize" /\ limCalls[2].on = Unlimited
    /\ limCalls[2].arg = MaxLimit /\ limCalls[2].ret = FALSE

\* C14: get_mut_or(init) on Unlimited makes the descriptor Limited(init) and
\* yields init; on Limited(n) it leaves Limited(n) and yields n whatever
\* init is; the descriptor is Limited after every call.
C14_GetMutOr ==
    [][limCalled("get_mut_or") =>
        LET c == Last(limCalls') IN
        /\ olimit'.tag = "Limited"
        /\ IF olimit = Unlimited
           THEN olimit' = Limited(c.arg) /\ c.ret = c.arg
           ELSE olimit' = olimit /\ c.ret = olimit.val
      ]_vars

\* get_mut_or(3) on Unlimited, then get_mut_or with another argument: the
\* limit is still 3
C14_Witness ==
    /\ Len(limCalls) = 2
    /\ limCalls[1].op = "get_mut_or" /\ limCalls[1].on = Unlimited
    /\ limCalls[1].arg = 3 /\ limCalls[1].ret = 3
    /\ limCalls[2].op = "get_mut_or" /\ limCalls[2].on = Limited(3)
    /\ limCalls[2].arg # 3 /\ limCalls[2].ret = 3
    /\ olimit = Limited(3)

\* C17: set_limit(n) gives Limited(n) from any state; replace_limit(n) gives
\* Limited(n) and returns Some(old) from Limited(old), None from Unlimited;
\* unset_limit gives Unlimited and returns likewise; get is None iff
\* Unlimited and Some(n) iff Limited(n); is_zero is true iff Limited(0).
C17_SettersAndGetters ==
    [][LET c == Last(limCalls')
           old == IF olimit.tag = "Limited" THEN Some(olimit.val) ELSE None IN
       /\ limCalled("set_limit") => olimit' = Limited(c.arg)
       /\ limCalled("replace_limit") => (olimit' = Limited(c.arg) /\ c.ret = old)
       /\ limCalled("unset_limit") => (olimit' = Unlimited /\ c.ret = old)
       /\ limCalled("get") =>
            /\ olimit' = olimit
            /\ (c.ret = None) <=> (olimit = Unlimited)
            /\ \A n \in Counts : (c.ret = Some(n)) <=> (olimit = Limited(n))
       /\ limCalled("is_zero") =>
            /\ olimit' = olimit
            /\ c.ret <=> (olimit = Limited(0))
            /\ (olimit = Unlimited) => ~c.ret
      ]_vars

\* the limit 0 was removed, and is_zero on the unlimited descriptor is false
C17_Witness ==
    /\ Len(limCalls) = 2
    /\ limCalls[1].op = "unset_limit" /\ limCalls[1].on = Limited(0)
    /\ limCalls[1].ret = Some(0)
    /\ limCalls[2].op = "is_zero" /\ limCalls[2].ret = FALSE
    /\ olimit = Unlimited

\* C19: get_mut_or never reaches unreachable_unchecked(), whatever the
\* descriptor and init: the descriptor is Limited when it calls
\* get_mut_unchecked.  No other method of the library reaches it: it is
\* reached only when the caller calls get_unchecked or get_mut_unchecked on
\* an Unlimited descriptor.
C19_UncheckedPreconditionKept ==
    \A i \in 1..Len(limCalls) :
        /\ limCalls[i].op = "get_mut_or" => ~limCalls[i].ub
        /\ limCalls[i].ub =>
              /\ limCalls[i].op \in {"get_unchecked", "get_mut_unchecked"}
              /\ limCalls[i].on = Unlimited

\* the limit was removed and get_mut_or on the Unlimited descriptor returned
\* its argument without reaching unreachable_unchecked()
C19_Witness ==
    /\ Len(limCalls) = 2
    /\ limCalls[1].op = "unset_limit" /\ limCalls[1].ret # None
    /\ limCalls[2].op = "get_mut_or" /\ limCalls[2].on = Unlimited
    /\ ~limCalls[2].ub
    /\ limCalls[2].ret = limCalls[2].arg
    /\ olimit = Limited(limCalls[2].arg)

====
